---- MODULE Spec2Model ----
(***************************************************************************)
(* A model of bip300-enforcer-demo: the block construction and chaining    *)
(* engine (src/src/main.rs), the scenario model (src/src/cli.rs) and the   *)
(* script emitter (src/src/posix_script_builder.rs).                       *)
(*                                                                         *)
(* Byte strings are sequences of naturals 0..255.  A 256-bit integer       *)
(* (U256, Target) is a sequence of 32 base-256 digits, most significant    *)
(* first.  An Amount is a number of satoshi kept as two base-2^24 limbs so *)
(* that 50 BTC = 5 000 000 000 sat is representable.                       *)
(***************************************************************************)
EXTENDS Integers, Sequences, FiniteSets, TLC

(***************************************************************************)
(* Bounds of the model.                                                    *)
(***************************************************************************)
\* longest scenario (number of block conditions) explored
MaxBlocks == 2
\* largest nonce counter value the proof-of-work search is followed to
MaxNonce == 6
\* largest halving epoch the subsidy harness draws heights from
MaxEpoch == 65
\* longest script document the rendering harness draws
MaxItems == 4

(***************************************************************************)
(* Bytes and fixed-width integers.                                         *)
(***************************************************************************)
Byte == 0..255

\* a sequence given as a function on 1..n, as the tuple of its elements
AsSeq(f) == f \o << >>

\* In the operators below an argument that is read more than once is first
\* bound to its value (v \in {arg}), so that it is computed once.
Zeros(n) == AsSeq([i \in 1..n |-> 0])

Reverse(s) ==
    CHOOSE r \in { AsSeq([i \in 1..Len(v) |-> v[Len(v) + 1 - i]]) : v \in {s} } : TRUE

\* u32::to_le_bytes, as consensus serialization writes a u32
LE4(n) == << n % 256, (n \div 256) % 256, (n \div 65536) % 256, (n \div 16777216) % 256 >>

\* the counter written least significant byte first instead
to_le_bytes(n) == LE4(n)

\* u32::to_be_bytes
to_be_bytes(n) == Reverse(LE4(n))

\* u32 read back from four little-endian bytes (consensus deserialization)
FromLE4(b) == b[1] + 256 * b[2] + 65536 * b[3] + 16777216 * b[4]

RECURSIVE Concat(_)
\* the concatenation of a sequence of byte strings
Concat(ss) == IF ss = << >> THEN << >> ELSE Head(ss) \o Concat(Tail(ss))

(***************************************************************************)
(* Hash functions.  SHA-256 is modelled by a deterministic mixing function *)
(* of the whole input that yields 32 bytes; the double hash is the hash    *)
(* applied twice, as in the library.                                       *)
(***************************************************************************)
HashLen == 32

RECURSIVE MixTail(_, _, _)
\* fewer than eight bytes data[i..hi], mixed into acc one at a time
MixTail(data, i, hi) ==
    IF i > hi THEN 0
    ELSE ((data[i] + 1) * (((i * 37) % 251) + 1) + 33 * MixTail(data, i + 1, hi)) % 65521

RECURSIVE Mix(_, _, _)
\* the bytes data[lo..hi] mixed into one number below 65521: eight bytes at
\* a time, the halves of a longer run combined
Mix(data, lo, hi) ==
    IF hi - lo < 7 THEN MixTail(data, lo, hi)
    ELSE IF hi - lo = 7
    THEN (data[lo] * 3 + data[lo + 1] * 5 + data[lo + 2] * 7 + data[lo + 3] * 11
            + data[lo + 4] * 13 + data[lo + 5] * 17 + data[lo + 6] * 19
            + data[lo + 7] * 23 + lo) % 65521
    ELSE CHOOSE r \in
            { (Mix(data, l, m - 1) * 31 + Mix(data, m, h)) % 65521 :
                l \in {lo}, h \in {hi},
                m \in { lo + (IF hi - lo < 16 THEN 8 ELSE 8 * ((hi - lo + 1) \div 16)) } } :
            TRUE

\* the 32 bytes a mixed value is spread over
Spread(s) ==
    CHOOSE r \in { AsSeq([i \in 1..HashLen |-> ((v + 7) * (2 * i + 1) + 29 * i) % 256]) :
                    v \in {s} } : TRUE

Sha256(data) ==
    CHOOSE r \in { Spread((Mix(d, 1, Len(d)) + Len(d) + 5381) % 65521) : d \in {data} } :
        TRUE

\* sha256d::Hash::hash(..).to_byte_array()
Sha256d(data) == Sha256(Sha256(data))

(***************************************************************************)
(* 256-bit integers and compact targets (bitcoin::Target, CompactTarget).  *)
(***************************************************************************)
U256Zero == Zeros(32)

\* Target::from_le_bytes
\* the bytes read most significant first instead
from_be_bytes(bytes) == bytes

from_le_bytes(bytes) == Reverse(bytes)

\* a < b on 256-bit integers: smaller at the first digit that differs
U256Less(a, b) ==
    \E x \in {a}, y \in {b} :
        \E i \in 1..32 : x[i] < y[i] /\ \A j \in 1..(i - 1) : x[j] = y[j]

\* byte j (0 = least significant) of a 24-bit mantissa, 0 outside it
MantByte(mant, j) ==
    IF j = 0 THEN mant % 256
    ELSE IF j = 1 THEN (mant \div 256) % 256
    ELSE IF j = 2 THEN (mant \div 65536) % 256
    ELSE 0

\* Target::from_compact: mantissa shifted by 8 * (exponent - 3) bits; a
\* mantissa with the sign bit set decodes to zero
from_compact(bits) ==
    LET expt == bits \div 16777216
        mant == bits % 16777216
    IN  IF mant > 8388607 THEN U256Zero
        ELSE AsSeq([i \in 1..32 |-> MantByte(mant, (32 - i) - (expt - 3))])

\* the number of zero digits before the first non-zero digit of t
LeadingZeros(t) ==
    IF \A i \in 1..32 : t[i] = 0 THEN 32
    ELSE (CHOOSE i \in 1..32 : t[i] # 0 /\ \A j \in 1..(i - 1) : t[j] = 0) - 1

\* digit of t at position p (0 = least significant), 0 outside the integer
DigitAt(t, p) == IF p >= 0 /\ p <= 31 THEN t[32 - p] ELSE 0

\* Target::to_compact_lossy
to_compact_lossy(t) ==
    LET size    == 32 - LeadingZeros(t)
        compact == 65536 * DigitAt(t, size - 1) + 256 * DigitAt(t, size - 2)
                       + DigitAt(t, size - 3)
    IN  IF compact >= 8388608
        THEN (compact \div 256) + (size + 1) * 16777216
        ELSE compact + size * 16777216

(***************************************************************************)
(* Amounts (bitcoin::Amount, u64 satoshi) as two base-2^24 limbs.          *)
(***************************************************************************)
Limb == 16777216

AmountZero == [hi |-> 0, lo |-> 0]

\* Amount::from_int_btc: btc * 100_000_000 satoshi (10^8 = 5 * 2^24 + 16113920)
from_int_btc(btc) ==
    [hi |-> btc * 5 + (btc * 16113920) \div Limb, lo |-> (btc * 16113920) % Limb]

\* Amount / 2^k for k < 64 (Amount's Div<u64> with the divisor 1 << k); an
\* amount is below 2^48, so a divisor of 2^48 or more leaves nothing
AmountShr(a, k) ==
    IF k >= 48 THEN AmountZero
    ELSE IF k >= 24 THEN [hi |-> 0, lo |-> a.hi \div (2 ^ (k - 24))]
    ELSE LET p == 2 ^ k
         IN  [hi |-> a.hi \div p, lo |-> (a.hi % p) * (Limb \div p) + (a.lo \div p)]

\* the eight little-endian bytes of a u64 amount
AmountBytes(a) ==
    << a.lo % 256, (a.lo \div 256) % 256, (a.lo \div 65536) % 256,
       a.hi % 256, (a.hi \div 256) % 256, (a.hi \div 65536) % 256, 0, 0 >>

(***************************************************************************)
(* block_subsidy.  The divisor is 1u64 << epoch: with overflow checks on   *)
(* (a debug build) a shift by 64 or more panics, with them off (a release  *)
(* build) the shift amount wraps modulo 64.                                *)
(***************************************************************************)
Networks == {"Bitcoin", "Testnet", "Regtest"}

REGTEST_HALVING_INTERVAL == 150

SUBSIDY_HALVING_INTERVAL == 210000

halving_interval(network) ==
    IF network = "Regtest" THEN REGTEST_HALVING_INTERVAL ELSE SUBSIDY_HALVING_INTERVAL

U64_BITS == 64

\* the exponent k of the divisor 2^k that `1 << epoch` evaluates to
ShiftAmount(epoch) == epoch % U64_BITS

\* [panic, value]: panic when the shift overflows under overflow checks
block_subsidy(network, height, overflow_checks) ==
    LET epoch == height \div halving_interval(network)
    IN  IF epoch >= U64_BITS /\ overflow_checks
        THEN [panic |-> TRUE, value |-> AmountZero]
        ELSE [panic |-> FALSE, value |-> AmountShr(from_int_btc(50), ShiftAmount(epoch))]

(***************************************************************************)
(* Scripts.                                                                *)
(***************************************************************************)
OP_TRUE == 81

OP_RETURN == 106

\* unlocked_script: the one-opcode script OP_TRUE
unlocked_script == << OP_TRUE >>

\* Address::p2wsh(..).script_pubkey(): OP_0 PUSHBYTES_32 sha256(script)
p2wsh_script_pubkey(script) == << 0, 32 >> \o Sha256(script)

RECURSIVE ScriptIntBytes(_)
\* the minimal little-endian encoding of a non-negative script integer
ScriptIntBytes(n) ==
    IF n = 0 THEN << >>
    ELSE IF n < 128 THEN << n >>
    ELSE IF n < 256 THEN << n, 0 >>
    ELSE << n % 256 >> \o ScriptIntBytes(n \div 256)

\* ScriptBuf::builder().push_int(n).into_script() for n >= 0: OP_0 for 0,
\* OP_PUSHNUM_n for 1..16, otherwise a push of the script integer
push_int(n) ==
    IF n = 0 THEN << 0 >>
    ELSE IF n >= 1 /\ n <= 16 THEN << n - 1 + OP_TRUE >>
    ELSE << Len(ScriptIntBytes(n)) >> \o ScriptIntBytes(n)

RECURSIVE ReadLE(_)
ReadLE(b) == IF b = << >> THEN 0 ELSE Head(b) + 256 * ReadLE(Tail(b))

\* read_scriptint on the bytes of a non-negative integer
read_scriptint(b) == ReadLE(b)

\* the height a coinbase script_sig encodes (BIP34: the script integer that
\* the first instruction pushes, OP_0 .. OP_16 included)
EncodedHeight(script_sig) ==
    LET op == script_sig[1]
    IN  IF op >= OP_TRUE /\ op <= OP_TRUE + 15 THEN op - OP_TRUE + 1
        ELSE read_scriptint(SubSeq(script_sig, 2, 1 + op))

(***************************************************************************)
(* Sidechain commitment outputs and the demo proposal.                     *)
(***************************************************************************)
DEMO_SIDECHAIN_SLOT == 255

\* b"demo sidechain"
DEMO_SIDECHAIN_DESCRIPTION ==
    << 100, 101, 109, 111, 32, 115, 105, 100, 101, 99, 104, 97, 105, 110 >>

CommitmentTag == << 213, 224, 196, 175 >>

m1_txout(sidechain_number, description) ==
    [value |-> AmountZero,
     script_pubkey |-> << OP_RETURN >> \o CommitmentTag \o << sidechain_number >>
                          \o description]

\* the acknowledgment carrying the raw description instead of its hash
m2_txout_raw(sidechain_number, description) ==
    [value |-> AmountZero,
     script_pubkey |-> << OP_RETURN >> \o CommitmentTag \o << sidechain_number >>
                          \o description]

m2_txout(sidechain_number, description) ==
    [value |-> AmountZero,
     script_pubkey |-> << OP_RETURN >> \o CommitmentTag \o << sidechain_number >>
                          \o Sha256d(description)]

(***************************************************************************)
(* Transactions, headers and blocks, with their consensus serialization.   *)
(***************************************************************************)
COINBASE_MATURITY == 100

\* heights at or above this are not block heights for LockTime::from_height
LOCK_TIME_THRESHOLD == 500000000

\* u32::MAX (Sequence::MAX, the null outpoint's vout), kept as its four bytes
U32Max == << 255, 255, 255, 255 >>

\* OutPoint::null()
OutPointNull == [txid |-> Zeros(32), vout |-> U32Max]

\* transaction::Version::TWO
TxVersionTwo == 2

\* block::Version::NO_SOFT_FORK_SIGNALLING (0x2000_0000)
NO_SOFT_FORK_SIGNALLING == 536870912

\* the coinbase transaction gen_block builds
CoinbaseTx(height, coinbase_txouts) ==
    [version   |-> TxVersionTwo,
     lock_time |-> height + COINBASE_MATURITY,
     input     |-> << [previous_output |-> OutPointNull,
                       script_sig      |-> push_int(height),
                       sequence        |-> U32Max,
                       witness         |-> << >>] >>,
     output    |-> coinbase_txouts]

\* the coinbase pushed without the two reversals
PrependCoinbase_append(coinbase_tx, txs) == Append(txs, coinbase_tx)

\* txs.reverse(); txs.push(coinbase_tx); txs.reverse()
PrependCoinbase(coinbase_tx, txs) == Reverse(Append(Reverse(txs), coinbase_tx))

SerializeTxIn(in) ==
    in.previous_output.txid \o in.previous_output.vout
        \o << Len(in.script_sig) >> \o in.script_sig \o in.sequence

SerializeTxOut(out) ==
    AmountBytes(out.value) \o << Len(out.script_pubkey) >> \o out.script_pubkey

\* the serialization a txid is computed from (no witness data)
SerializeTx(tx) ==
    LE4(tx.version)
        \o << Len(tx.input) >>
        \o Concat(AsSeq([i \in 1..Len(tx.input) |-> SerializeTxIn(tx.input[i])]))
        \o << Len(tx.output) >>
        \o Concat(AsSeq([i \in 1..Len(tx.output) |-> SerializeTxOut(tx.output[i])]))
        \o LE4(tx.lock_time)

Txid(tx) == Sha256d(SerializeTx(tx))

RECURSIVE MerkleLevels(_)
\* the merkle tree: pairs hashed together, an odd last node with itself
MerkleLevels(hashes) ==
    IF Len(hashes) = 1 THEN hashes[1]
    ELSE MerkleLevels(AsSeq(
            [i \in 1..((Len(hashes) + 1) \div 2) |->
                Sha256d(hashes[2 * i - 1]
                        \o hashes[IF 2 * i <= Len(hashes) THEN 2 * i ELSE 2 * i - 1])]))

\* Block::compute_merkle_root (the transaction list is never empty here)
compute_merkle_root(txdata) ==
    MerkleLevels(AsSeq([i \in 1..Len(txdata) |-> Txid(txdata[i])]))

\* TxMerkleNode::all_zeros()
MerkleAllZeros == Zeros(32)

\* the 80 bytes of a header: version, prev hash, merkle root, time, bits and
\* nonce, the integers little-endian
SerializeHeader(h) ==
    CHOOSE r \in { LE4(v.version) \o v.prev_blockhash \o v.merkle_root \o LE4(v.time)
                        \o LE4(v.bits) \o LE4(v.nonce) : v \in {h} } : TRUE

\* bitcoin::consensus::deserialize of 80 header bytes
DeserializeHeader(b) ==
    CHOOSE r \in { [version        |-> FromLE4(SubSeq(v, 1, 4)),
                    prev_blockhash |-> SubSeq(v, 5, 36),
                    merkle_root    |-> SubSeq(v, 37, 68),
                    time           |-> FromLE4(SubSeq(v, 69, 72)),
                    bits           |-> FromLE4(SubSeq(v, 73, 76)),
                    nonce          |-> FromLE4(SubSeq(v, 77, 80))] : v \in {b} } : TRUE

\* Header::block_hash
HeaderHash(h) == Sha256d(SerializeHeader(h))

block_hash(block) == HeaderHash(block.header)

\* Header::target
HeaderTarget(h) == from_compact(h.bits)

\* the search's test: the hash, read little-endian, is below the target
MeetsTarget(header_bytes, target) ==
    U256Less(from_le_bytes(Sha256d(header_bytes)), target)

\* Header::validate_pow: the header's own target is the required one and
\* the block hash does not exceed it
validate_pow(h, required) ==
    /\ HeaderTarget(h) = required
    /\ ~U256Less(required, from_le_bytes(HeaderHash(h)))

\* the incremented nonce never written into the header bytes
PatchNonce_unwritten(header_bytes, nonce) == header_bytes

\* the incremented nonce written over the time field, bytes 68..71
PatchNonce_time(header_bytes, nonce) ==
    SubSeq(header_bytes, 1, 68) \o to_be_bytes(nonce) \o SubSeq(header_bytes, 73, 80)

\* header_bytes[76..=79] = nonce.to_be_bytes()
PatchNonce(header_bytes, nonce) ==
    SubSeq(header_bytes, 1, 76) \o to_be_bytes(nonce)

\* bitcoin::consensus::serialize(block)
SerializeBlock(block) ==
    SerializeHeader(block.header)
        \o << Len(block.txdata) >>
        \o Concat(AsSeq([i \in 1..Len(block.txdata) |-> SerializeTx(block.txdata[i])]))

\* Block::bip34_block_height: [ok, height]; the first instruction of the
\* coinbase script_sig must be a push of bytes holding the script integer
bip34_block_height(block) ==
    LET script_sig == block.txdata[1].input[1].script_sig
        op         == script_sig[1]
    IN  IF block.header.version < 2 THEN [ok |-> FALSE, height |-> 0]
        ELSE IF op <= 75
        THEN [ok |-> TRUE, height |-> read_scriptint(SubSeq(script_sig, 2, 1 + op))]
        ELSE [ok |-> FALSE, height |-> 0]

(***************************************************************************)
(* Text.  A string is a sequence of chunks; a chunk is a piece of literal  *)
(* text or the lower-case hex digits of a byte string.  The newline and    *)
(* the space are chunks of their own.                                      *)
(***************************************************************************)
Lit(str) == [lit |-> str, hex |-> << >>]

\* a one-chunk string
Str(str) == << Lit(str) >>

NL == Lit("\n")

SP == Lit(" ")

\* DisplayHex::to_lower_hex_string: two hex digits per byte, high digit first
to_lower_hex_string(bytes) ==
    << [lit |-> "hex",
        hex |-> AsSeq([i \in 1..(2 * Len(bytes)) |->
                          IF i % 2 = 1 THEN bytes[(i + 1) \div 2] \div 16
                          ELSE bytes[i \div 2] % 16])] >>

RECURSIVE Join(_, _)
\* [String]::join(sep)
Join(strs, sep) ==
    IF strs = << >> THEN << >>
    ELSE IF Len(strs) = 1 THEN strs[1]
    ELSE strs[1] \o sep \o Join(Tail(strs), sep)

RECURSIVE FirstNewline(_, _)
\* the index of the first newline of s at or after i, 0 when there is none
FirstNewline(s, i) ==
    IF i > Len(s) THEN 0
    ELSE IF s[i] = NL THEN i
    ELSE FirstNewline(s, i + 1)

RECURSIVE Lines(_)
\* str::lines: the lines of s, a final newline ending the last line
Lines(s) ==
    IF s = << >> THEN << >>
    ELSE LET k == FirstNewline(s, 1)
         IN  IF k = 0 THEN << s >>
             ELSE << SubSeq(s, 1, k - 1) >> \o Lines(SubSeq(s, k + 1, Len(s)))

(***************************************************************************)
(* The script emitter (OutputPosixScriptBuilder).                          *)
(***************************************************************************)
CommandItem(command, args) ==
    [kind |-> "Command", text |-> << >>, command |-> command, args |-> args]

CommentItem(text) ==
    [kind |-> "Comment", text |-> text, command |-> << >>, args |-> << >>]

\* impl Display for Command: the command and its arguments joined by spaces
CommandFmt(item) == Join(<< item.command >> \o item.args, << SP >>)

\* impl Display for Comment: every line prefixed with "# ", joined by newlines
CommentFmt(item) ==
    Join(AsSeq([i \in 1..Len(Lines(item.text)) |-> Str("# ") \o Lines(item.text)[i]]),
         << NL >>)

\* a Comment separated from whatever follows it by a blank line
CommentSeparator_blank(has_next, next_kind) ==
    IF has_next THEN << NL, NL >> ELSE << NL >>

\* what finalize pushes after a Comment, by the item peeked after it
CommentSeparator(has_next, next_kind) ==
    IF has_next /\ next_kind = "Comment" THEN << NL, NL >> ELSE << NL >>

\* what finalize pushes after a Command, by whether an item follows
CommandSeparator(has_next) ==
    IF has_next THEN << NL, NL >> ELSE << NL >>

RECURSIVE FinalizeFrom(_, _)
FinalizeFrom(script, i) ==
    IF i > Len(script) THEN << >>
    ELSE LET item     == script[i]
             has_next == i < Len(script)
         IN  (IF item.kind = "Comment"
              THEN CommentFmt(item)
                     \o CommentSeparator(has_next,
                                         IF has_next THEN script[i + 1].kind ELSE "None")
              ELSE CommandFmt(item) \o CommandSeparator(has_next))
             \o FinalizeFrom(script, i + 1)

\* OutputPosixScriptBuilder::finalize
finalize(script) == FinalizeFrom(script, 1)

\* OutputPosixScriptBuilder::comment
comment(script, text) == Append(script, CommentItem(text))

\* the command pushed at the front of the queue instead of the back
command_front(script, cmd, args) == << CommandItem(cmd, args) >> \o script

\* OutputPosixScriptBuilder::command
command(script, cmd, args) == Append(script, CommandItem(cmd, args))

\* serde_json::to_string of the JSON-RPC request
JsonRequest(method, params) ==
    Str("{\"id\":\"bip347-enforcer-test\",\"jsonrpc\":\"2.0\",\"method\":\"")
        \o Str(method) \o Str("\",\"params\":[\"") \o Join(params, Str("\",\""))
        \o Str("\"]}")

\* OutputPosixScriptBuilder::curl_rpc
curl_rpc(script, rpc_addr, rpc_auth, method, params) ==
    command(script, Str("curl"),
            << Str("'") \o rpc_addr \o Str("'"),
               Str("-H"),
               Str("'Content-Type: application/json'"),
               Str("--user"),
               Str("'") \o rpc_auth.rpc_user \o Str(":") \o rpc_auth.rpc_pass \o Str("'"),
               Str("--data-binary"),
               Str("'") \o JsonRequest(method, params) \o Str("'") >>)

\* OutputPosixScriptBuilder::submitblock
submitblock(script, rpc_addr, rpc_auth, block) ==
    curl_rpc(script, rpc_addr, rpc_auth, "submitblock",
             << to_lower_hex_string(SerializeBlock(block)) >>)

(***************************************************************************)
(* The scenario model (cli.rs) and the per-condition helpers of main.rs.   *)
(***************************************************************************)
\* BlockSpec::requires_m1
BlockSpec_requires_m1(block_spec) == block_spec.duplicate_m2

\* BlockSpec::n_reasons_invalid
n_reasons_invalid(block_spec) == IF block_spec.duplicate_m2 THEN 1 ELSE 0

\* only the first condition is asked
requires_m1_first(blocks_spec) ==
    blocks_spec # << >> /\ BlockSpec_requires_m1(blocks_spec[1])

\* BlocksSpec::requires_m1
requires_m1(blocks_spec) ==
    \E i \in 1..Len(blocks_spec) : BlockSpec_requires_m1(blocks_spec[i])

\* the decimal digits of a small count
Decimal(n) == Str(IF n = 0 THEN "0" ELSE "1")

gen_comment(block_spec) ==
    Join(<< Str("Generate a block with ") \o Decimal(n_reasons_invalid(block_spec))
              \o Str(" invalid conditions:") >>
         \o (IF block_spec.duplicate_m2
             THEN << Str("- 1 duplicate M2 message in coinbase outputs") >>
             ELSE << >>),
         << NL >>)

\* the acknowledgment pushed once instead of twice
gen_txs_single(block_spec) ==
    LET m2 == m2_txout(DEMO_SIDECHAIN_SLOT, DEMO_SIDECHAIN_DESCRIPTION)
    IN  [coinbase_txouts |-> IF block_spec.duplicate_m2 THEN << m2 >> ELSE << >>,
         txs             |-> << >>]

\* gen_txs: [coinbase_txouts, txs]
gen_txs(block_spec) ==
    LET m2 == m2_txout(DEMO_SIDECHAIN_SLOT, DEMO_SIDECHAIN_DESCRIPTION)
    IN  [coinbase_txouts |-> IF block_spec.duplicate_m2 THEN << m2, m2 >> ELSE << >>,
         txs             |-> << >>]

(***************************************************************************)
(* The program's state.                                                    *)
(***************************************************************************)
VARIABLES
    pc,               \* the position of main / gen_script / gen_setup_blocks
    overflow_checks,  \* whether the build panics on arithmetic overflow
    cli,              \* the parsed command line (Cli)
    template,         \* the BlockTemplate the node returned
    height,           \* chain cursor: the height given to the next gen_block
    prev_blockhash,   \* chain cursor: the previous block hash
    target,           \* chain cursor: the compact target
    coinbase_value,   \* gen_setup_blocks' coinbase_value
    setup_blocks,     \* gen_setup_blocks' blocks
    scenario_blocks,  \* history: the blocks gen_script's loop has built
    spec_idx,         \* the loop's position in blocks_spec
    script,           \* posix_script_builder.script
    stdout,           \* what has been printed
    frame,            \* the locals of the running gen_block call
    ret,              \* where the running gen_block call returns to
    block,            \* the block gen_block returned
    clock,            \* the system clock, in seconds
    call              \* a call of a function on its own (function harnesses)

vars == << pc, overflow_checks, cli, template, height, prev_blockhash, target, coinbase_value,
           setup_blocks, scenario_blocks, spec_idx, script, stdout, frame, ret,
           block, clock, call >>

(***************************************************************************)
(* The inputs the model draws.                                             *)
(***************************************************************************)
\* the clock readings of a run: a second and the one after it
ClockStart == 1700000000

Times == {ClockStart, ClockStart + 1}

BlockSpecs == [duplicate_m2 : BOOLEAN]

RECURSIVE SeqsUpTo(_, _)
\* the sequences over S of length at most n
SeqsUpTo(S, n) ==
    IF n = 0 THEN {<< >>}
    ELSE LET shorter == SeqsUpTo(S, n - 1)
         IN  shorter \cup {Append(q, x) : q \in shorter, x \in S}

\* the scenarios the command line may hold
BlocksSpecs == SeqsUpTo(BlockSpecs, MaxBlocks)

\* the heights a block template may name: the genesis successor range, a
\* height push_int encodes as an opcode, the last height of regtest epoch 0,
\* the first of regtest epochs 33 and 64, the last height whose coinbase lock
\* time is still a height, and the first whose lock time no longer is
TemplateHeights == {0, 16, 149, 33 * REGTEST_HALVING_INTERVAL,
                    U64_BITS * REGTEST_HALVING_INTERVAL,
                    LOCK_TIME_THRESHOLD - COINBASE_MATURITY - 1,
                    LOCK_TIME_THRESHOLD - COINBASE_MATURITY}

\* the compact targets a template may name: 0x207fffff (regtest) and 0x203fffff
TemplateTargets == {545259519, 541065215}

TemplatePrevHashes == {Sha256d(<< 0 >>)}

DefaultRpcAddr == Str("127.0.0.1:8332")

DefaultRpcAuth == [rpc_pass |-> << >>, rpc_user |-> << >>]

NoFrame == << >>

(***************************************************************************)
(* gen_block, up to the start of the nonce search (main.rs 49-83).         *)
(***************************************************************************)
\* LockTime::from_height(height + COINBASE_MATURITY) is an error
LockTimeError(h) == h + COINBASE_MATURITY >= LOCK_TIME_THRESHOLD

\* the header with the zero merkle root placeholder and nonce zero
PlaceholderHeader(prev, bits, time) ==
    [version        |-> NO_SOFT_FORK_SIGNALLING,
     prev_blockhash |-> prev,
     merkle_root    |-> MerkleAllZeros,
     time           |-> time,
     bits           |-> bits,
     nonce          |-> 0]

\* the placeholder merkle root left in the header
WithMerkleRoot_placeholder(header, txdata) == header

\* block.header.merkle_root = block.compute_merkle_root().unwrap()
WithMerkleRoot(header, txdata) ==
    [header EXCEPT !.merkle_root = compute_merkle_root(txdata)]

\* the frame of a gen_block call when its loop is first entered
GenBlockFrame(prev, bits, h, coinbase_txouts, txs, time) ==
    LET txdata == PrependCoinbase(CoinbaseTx(h, coinbase_txouts), txs)
        header == WithMerkleRoot(PlaceholderHeader(prev, bits, time), txdata)
    IN  [block        |-> [header |-> header, txdata |-> txdata],
         target       |-> from_compact(bits),
         nonce        |-> header.nonce,
         header_bytes |-> SerializeHeader(header)]

\* a call of gen_block from position `from`, returning to position `to`
CallGenBlock(prev, bits, h, coinbase_txouts, txs, to) ==
    IF LockTimeError(h)
    THEN /\ pc' = "error"
         /\ UNCHANGED << frame, ret, clock >>
    ELSE \E time \in Times :
            /\ time >= clock
            /\ clock' = time
            /\ frame' = GenBlockFrame(prev, bits, h, coinbase_txouts, txs, time)
            /\ ret' = to
            /\ pc' = "mining"

\* the value-bearing output
ValueTxOut(value) ==
    [value |-> value, script_pubkey |-> p2wsh_script_pubkey(unlocked_script)]

(***************************************************************************)
(* The actions of the program.                                             *)
(***************************************************************************)
Init ==
    /\ pc = "main"
    /\ overflow_checks \in BOOLEAN
    /\ cli = << >>
    /\ template = << >>
    /\ height = 0
    /\ prev_blockhash = << >>
    /\ target = 0
    /\ coinbase_value = AmountZero
    /\ setup_blocks = << >>
    /\ scenario_blocks = << >>
    /\ spec_idx = 0
    /\ script = << >>
    /\ stdout = << >>
    /\ frame = NoFrame
    /\ ret = ""
    /\ block = << >>
    /\ clock = ClockStart
    /\ call = << >>

\* main: Cli::parse, then gen_script's OutputPosixScriptBuilder::new
Main ==
    /\ pc = "main"
    /\ \E network \in Networks, blocks_spec \in BlocksSpecs :
          cli' = [network     |-> network,
                  rpc_addr    |-> DefaultRpcAddr,
                  rpc_auth    |-> DefaultRpcAuth,
                  blocks_spec |-> blocks_spec]
    /\ script' = << >>
    /\ pc' = "get_block_template"
    /\ UNCHANGED << overflow_checks, template, height, prev_blockhash, target,
                    coinbase_value, setup_blocks, scenario_blocks, spec_idx, stdout,
                    frame, ret, block, clock, call >>

\* gen_setup_blocks: the template arrives (main.rs 138-159)
GetBlockTemplate ==
    /\ pc = "get_block_template"
    /\ \E h \in TemplateHeights, prev \in TemplatePrevHashes, bits \in TemplateTargets :
          LET subsidy == block_subsidy(cli.network, h, overflow_checks)
          IN  /\ template' = [height |-> h, prev_blockhash |-> prev, target |-> bits]
              /\ height' = h
              /\ prev_blockhash' = prev
              /\ target' = bits
              /\ coinbase_value' = subsidy.value
              /\ pc' = IF subsidy.panic THEN "panic" ELSE "setup1"
    /\ setup_blocks' = << >>
    /\ UNCHANGED << overflow_checks, cli, scenario_blocks, spec_idx, script, stdout,
                    frame, ret, block, clock, call >>

\* gen_setup_blocks: the client or the template request fails (main.rs 144, 150)
GetBlockTemplateFails ==
    /\ pc = "get_block_template"
    /\ pc' = "error"
    /\ UNCHANGED << overflow_checks, cli, template, height, prev_blockhash, target,
                    coinbase_value, setup_blocks, scenario_blocks, spec_idx, script,
                    stdout, frame, ret, block, clock, call >>

\* gen_setup_blocks: the first setup block is begun (main.rs 160-166)
GenSetupBlock1 ==
    /\ pc = "setup1"
    /\ CallGenBlock(prev_blockhash, target, height,
                    << ValueTxOut(coinbase_value) >>, << >>, "setup1_built")
    /\ UNCHANGED << overflow_checks, cli, template, height, prev_blockhash, target,
                    coinbase_value, setup_blocks, scenario_blocks, spec_idx, script,
                    stdout, block, call >>

\* gen_block's loop: the hash is not below the target, the nonce is
\* incremented and written big-endian into the header bytes (main.rs 84-95)
NonceStep ==
    /\ pc = "mining"
    /\ ~MeetsTarget(frame.header_bytes, frame.target)
    /\ frame.nonce < MaxNonce
    /\ frame' = [frame EXCEPT !.nonce = frame.nonce + 1,
                              !.header_bytes = PatchNonce(frame.header_bytes,
                                                          frame.nonce + 1)]
    /\ UNCHANGED << pc, overflow_checks, cli, template, height, prev_blockhash, target,
                    coinbase_value, setup_blocks, scenario_blocks, spec_idx, script,
                    stdout, ret, block, clock, call >>

\* the block gen_block returns once the search has stopped at header_bytes
MinedBlock(f) == [f.block EXCEPT !.header = DeserializeHeader(f.header_bytes)]

\* gen_block's loop breaks; the header is read back, the proof of work is
\* asserted and the block is returned (main.rs 86-87, 96-98)
GenBlockReturn ==
    /\ pc = "mining"
    /\ MeetsTarget(frame.header_bytes, frame.target)
    /\ IF validate_pow(MinedBlock(frame).header, frame.target)
       THEN /\ block' = MinedBlock(frame)
            /\ pc' = ret
       ELSE /\ block' = block
            /\ pc' = "panic"
    /\ frame' = NoFrame
    /\ UNCHANGED << overflow_checks, cli, template, height, prev_blockhash, target,
                    coinbase_value, setup_blocks, scenario_blocks, spec_idx, script,
                    stdout, ret, clock, call >>

\* the cursor left at the block's own previous hash
CursorHash_stale(b) == b.header.prev_blockhash

\* the previous-hash the cursor takes from a finished block (main.rs 167,
\* 224, 249)
CursorHash(b) == block_hash(b)

\* gen_setup_blocks: the cursor is taken from the first setup block, which
\* is pushed (main.rs 167-170)
Setup1Built ==
    /\ pc = "setup1_built"
    /\ LET h == bip34_block_height(block)
       IN  IF h.ok
           THEN /\ prev_blockhash' = CursorHash(block)
                /\ height' = h.height
                /\ target' = to_compact_lossy(HeaderTarget(block.header))
                /\ setup_blocks' = Append(setup_blocks, block)
                /\ pc' = IF requires_m1(cli.blocks_spec) THEN "setup2" ELSE "setup_done"
           ELSE /\ prev_blockhash' = CursorHash(block)
                /\ pc' = "error"
                /\ UNCHANGED << height, target, setup_blocks >>
    /\ UNCHANGED << overflow_checks, cli, template, coinbase_value, scenario_blocks, spec_idx,
                    script, stdout, frame, ret, block, clock, call >>

\* the coinbase outputs of the second setup block (main.rs 172-178)
Setup2TxOuts(value) ==
    << ValueTxOut(value),
       m1_txout(DEMO_SIDECHAIN_SLOT, DEMO_SIDECHAIN_DESCRIPTION) >>

\* gen_setup_blocks: the second setup block is begun (main.rs 171-180)
GenSetupBlock2 ==
    /\ pc = "setup2"
    /\ CallGenBlock(prev_blockhash, target, height, Setup2TxOuts(coinbase_value),
                    << >>, "setup2_built")
    /\ UNCHANGED << overflow_checks, cli, template, height, prev_blockhash, target,
                    coinbase_value, setup_blocks, scenario_blocks, spec_idx, script,
                    stdout, block, call >>

\* gen_setup_blocks: the second setup block is pushed (main.rs 181)
Setup2Built ==
    /\ pc = "setup2_built"
    /\ setup_blocks' = Append(setup_blocks, block)
    /\ pc' = "setup_done"
    /\ UNCHANGED << overflow_checks, cli, template, height, prev_blockhash, target,
                    coinbase_value, scenario_blocks, spec_idx, script, stdout, frame,
                    ret, block, clock, call >>

RECURSIVE SubmitAll(_, _, _, _)
\* for block in setup_blocks { posix_script_builder.submitblock(&block) }
SubmitAll(scr, rpc_addr, rpc_auth, blocks) ==
    IF blocks = << >> THEN scr
    ELSE SubmitAll(submitblock(scr, rpc_addr, rpc_auth, Head(blocks)),
                   rpc_addr, rpc_auth, Tail(blocks))

\* the height gen_script starts its loop with (main.rs 223)
ScenarioStartHeight(last_setup_block) == bip34_block_height(last_setup_block)

\* gen_script: the setup blocks are back; the cursor is taken from the last
\* of them and they are submitted (main.rs 221-234)
SetupDone ==
    /\ pc = "setup_done"
    /\ LET last == setup_blocks[Len(setup_blocks)]
           h    == ScenarioStartHeight(last)
       IN  IF h.ok
           THEN /\ height' = h.height
                /\ prev_blockhash' = CursorHash(last)
                /\ target' = to_compact_lossy(HeaderTarget(last.header))
                /\ script' = SubmitAll(comment(script, Str("Mine some setup blocks")),
                                       cli.rpc_addr, cli.rpc_auth, setup_blocks)
                /\ spec_idx' = 1
                /\ pc' = "loop"
           ELSE /\ pc' = "error"
                /\ UNCHANGED << height, prev_blockhash, target, script, spec_idx >>
    /\ UNCHANGED << overflow_checks, cli, template, coinbase_value, setup_blocks,
                    scenario_blocks, stdout, frame, ret, block, clock, call >>

\* the value output paying the initial subsidy whatever the height
ScenarioTxOuts_unhalved(block_spec, value) ==
    Append(gen_txs(block_spec).coinbase_txouts, ValueTxOut(from_int_btc(50)))

\* the coinbase outputs of a scenario block (main.rs 238-244)
ScenarioTxOuts(block_spec, value) ==
    Append(gen_txs(block_spec).coinbase_txouts, ValueTxOut(value))

\* gen_script's loop: the comment is appended and the block of the next
\* condition is begun (main.rs 235-246)
GenScenarioBlock ==
    /\ pc = "loop"
    /\ spec_idx <= Len(cli.blocks_spec)
    /\ LET block_spec == cli.blocks_spec[spec_idx]
           subsidy    == block_subsidy(cli.network, height, overflow_checks)
       IN  /\ script' = comment(script, gen_comment(block_spec))
           /\ IF subsidy.panic
              THEN /\ pc' = "panic"
                   /\ UNCHANGED << frame, ret, clock >>
              ELSE CallGenBlock(prev_blockhash, target, height,
                                ScenarioTxOuts(block_spec, subsidy.value),
                                gen_txs(block_spec).txs, "scenario_built")
    /\ UNCHANGED << overflow_checks, cli, template, height, prev_blockhash, target,
                    coinbase_value, setup_blocks, scenario_blocks, spec_idx, stdout,
                    block, call >>

\* the height the loop continues with (main.rs 248)
NextHeight(h) == h + 1

\* gen_script's loop: the block is submitted and the cursor advanced
\* (main.rs 247-250)
ScenarioBuilt ==
    /\ pc = "scenario_built"
    /\ script' = submitblock(script, cli.rpc_addr, cli.rpc_auth, block)
    /\ height' = NextHeight(height)
    /\ prev_blockhash' = CursorHash(block)
    /\ target' = to_compact_lossy(HeaderTarget(block.header))
    /\ scenario_blocks' = Append(scenario_blocks, block)
    /\ spec_idx' = spec_idx + 1
    /\ pc' = "loop"
    /\ UNCHANGED << overflow_checks, cli, template, coinbase_value, setup_blocks, stdout, frame,
                    ret, block, clock, call >>

\* the script printed from inside the loop, before every block is built
PrintScript_early ==
    /\ pc = "loop"
    /\ stdout' = finalize(script) \o << NL >>
    /\ pc' = IF spec_idx > Len(cli.blocks_spec) THEN "done" ELSE "loop"
    /\ UNCHANGED << overflow_checks, cli, template, height, prev_blockhash, target,
                    coinbase_value, setup_blocks, scenario_blocks, spec_idx, script,
                    frame, ret, block, clock, call >>

\* gen_script: println!("{}", posix_script_builder.finalize()) (main.rs 252-253)
PrintScript ==
    /\ pc = "loop"
    /\ spec_idx > Len(cli.blocks_spec)
    /\ stdout' = finalize(script) \o << NL >>
    /\ pc' = "done"
    /\ UNCHANGED << overflow_checks, cli, template, height, prev_blockhash, target,
                    coinbase_value, setup_blocks, scenario_blocks, spec_idx, script,
                    frame, ret, block, clock, call >>

Next ==
    \/ Main
    \/ GetBlockTemplate
    \/ GetBlockTemplateFails
    \/ GenSetupBlock1
    \/ NonceStep
    \/ GenBlockReturn
    \/ Setup1Built
    \/ GenSetupBlock2
    \/ Setup2Built
    \/ SetupDone
    \/ GenScenarioBlock
    \/ ScenarioBuilt
    \/ PrintScript

Spec == Init /\ [][Next]_vars

(***************************************************************************)
(* block_subsidy on its own: the function called at a height and at the    *)
(* same place of the next halving epoch.                                   *)
(***************************************************************************)
SubsidyInit ==
    /\ pc = "block_subsidy"
    /\ overflow_checks \in BOOLEAN
    /\ cli = << >>
    /\ template = << >>
    /\ height = 0
    /\ prev_blockhash = << >>
    /\ target = 0
    /\ coinbase_value = AmountZero
    /\ setup_blocks = << >>
    /\ scenario_blocks = << >>
    /\ spec_idx = 0
    /\ script = << >>
    /\ stdout = << >>
    /\ frame = NoFrame
    /\ ret = ""
    /\ block = << >>
    /\ clock = ClockStart
    /\ call = << >>

\* the first and the last height of a halving epoch
EpochHeights(network, epoch) ==
    { epoch * halving_interval(network),
      epoch * halving_interval(network) + halving_interval(network) - 1 }

\* block_subsidy(network, h) and block_subsidy(network, h + halving_interval)
CallBlockSubsidy ==
    /\ pc = "block_subsidy"
    /\ \E network \in Networks, epoch \in 0..MaxEpoch :
          \E h \in EpochHeights(network, epoch) :
             call' = [network |-> network,
                      height  |-> h,
                      subsidy |-> block_subsidy(network, h, overflow_checks),
                      next    |-> block_subsidy(network, h + halving_interval(network),
                                                overflow_checks)]
    /\ UNCHANGED << pc, overflow_checks, cli, template, height, prev_blockhash, target,
                    coinbase_value, setup_blocks, scenario_blocks, spec_idx, script,
                    stdout, frame, ret, block, clock >>

SubsidyNext == CallBlockSubsidy

SubsidySpec == SubsidyInit /\ [][SubsidyNext]_vars

(***************************************************************************)
(* OutputPosixScriptBuilder on its own: a caller pushes comments and       *)
(* commands in any order and then finalizes the builder.                   *)
(***************************************************************************)
CommentTexts ==
    { << >>, Str("c1"), Str("a") \o << NL >> \o Str("b"), Str("a") \o << NL >> }

Commands ==
    { [command |-> Str("echo"), args |-> << >>],
      [command |-> Str("curl"), args |-> << Str("-H"), Str("x") >>] }

RenderInit ==
    /\ pc = "builder"
    /\ overflow_checks \in BOOLEAN
    /\ cli = << >>
    /\ template = << >>
    /\ height = 0
    /\ prev_blockhash = << >>
    /\ target = 0
    /\ coinbase_value = AmountZero
    /\ setup_blocks = << >>
    /\ scenario_blocks = << >>
    /\ spec_idx = 0
    /\ script = << >>
    /\ stdout = << >>
    /\ frame = NoFrame
    /\ ret = ""
    /\ block = << >>
    /\ clock = ClockStart
    /\ call = << >>

\* builder.comment(text)
BuilderComment ==
    /\ pc = "builder"
    /\ Len(script) < MaxItems
    /\ \E text \in CommentTexts : script' = comment(script, text)
    /\ UNCHANGED << pc, overflow_checks, cli, template, height, prev_blockhash, target,
                    coinbase_value, setup_blocks, scenario_blocks, spec_idx, stdout,
                    frame, ret, block, clock, call >>

\* builder.command(cmd, args)
BuilderCommand ==
    /\ pc = "builder"
    /\ Len(script) < MaxItems
    /\ \E c \in Commands : script' = command(script, c.command, c.args)
    /\ UNCHANGED << pc, overflow_checks, cli, template, height, prev_blockhash, target,
                    coinbase_value, setup_blocks, scenario_blocks, spec_idx, stdout,
                    frame, ret, block, clock, call >>

\* builder.finalize(): the builder is consumed and the text returned
BuilderFinalize ==
    /\ pc = "builder"
    /\ stdout' = finalize(script)
    /\ pc' = "finalized"
    /\ UNCHANGED << overflow_checks, cli, template, height, prev_blockhash, target,
                    coinbase_value, setup_blocks, scenario_blocks, spec_idx, script,
                    frame, ret, block, clock, call >>

RenderNext ==
    \/ BuilderComment
    \/ BuilderCommand
    \/ BuilderFinalize

RenderSpec == RenderInit /\ [][RenderNext]_vars

(***************************************************************************)
(* BlocksSpec::from_str on its own.  A JSON text is modelled by the value  *)
(* it denotes: an array of values or something else; a value is an object  *)
(* (its members in the order written) or something else; a member's value  *)
(* is a boolean or something else.  BlockSpec derives Deserialize with     *)
(* #[serde(default)] on duplicate_m2 and without deny_unknown_fields, so   *)
(* the derived visitor skips a member whose name it does not know.         *)
(***************************************************************************)
MaxFields == 2

JsonKeys == {"duplicate_m2", "duplicate_m1"}

JsonMemberValues ==
    { [type |-> "bool", bool |-> TRUE], [type |-> "bool", bool |-> FALSE],
      [type |-> "null", bool |-> FALSE] }

JsonMembers == [key : JsonKeys, value : JsonMemberValues]

JsonValues ==
    { [type |-> "object", fields |-> f] : f \in SeqsUpTo(JsonMembers, MaxFields) }
        \cup { [type |-> "null", fields |-> << >>] }

JsonTexts ==
    { [type |-> "array", items |-> v] : v \in SeqsUpTo(JsonValues, MaxBlocks) }
        \cup { [type |-> "null", items |-> << >>] }

ParseOk(v) == [ok |-> TRUE, value |-> v, path |-> << >>]

ParseErr(path) == [ok |-> FALSE, value |-> << >>, path |-> path]

RECURSIVE VisitMap(_, _, _)
\* the derived visitor's visit_map from member i on; field0 is what it holds
\* for duplicate_m2 so far
VisitMap(fields, i, field0) ==
    IF i > Len(fields)
    THEN ParseOk([duplicate_m2 |-> IF field0.some THEN field0.value ELSE FALSE])
    ELSE IF fields[i].key = "duplicate_m2"
         THEN IF field0.some THEN ParseErr(<< >>)
              ELSE IF fields[i].value.type # "bool" THEN ParseErr(<< fields[i].key >>)
              ELSE VisitMap(fields, i + 1, [some |-> TRUE, value |-> fields[i].value.bool])
         ELSE VisitMap(fields, i + 1, field0)

\* <BlockSpec as Deserialize>::deserialize
DeserializeBlockSpec(v) ==
    IF v.type # "object" THEN ParseErr(<< >>)
    ELSE VisitMap(v.fields, 1, [some |-> FALSE, value |-> FALSE])

RECURSIVE DeserializeVec(_, _, _)
\* Vec<BlockSpec>'s visitor from item i on, the first error ending it
DeserializeVec(items, i, acc) ==
    IF i > Len(items) THEN ParseOk(acc)
    ELSE LET r == DeserializeBlockSpec(items[i])
         IN  IF r.ok THEN DeserializeVec(items, i + 1, Append(acc, r.value))
             ELSE ParseErr(<< i - 1 >> \o r.path)

\* BlocksSpec::from_str
from_str(s) ==
    IF s.type # "array" THEN ParseErr(<< >>) ELSE DeserializeVec(s.items, 1, << >>)

ParseInit ==
    /\ pc = "from_str"
    /\ overflow_checks \in BOOLEAN
    /\ cli = << >>
    /\ template = << >>
    /\ height = 0
    /\ prev_blockhash = << >>
    /\ target = 0
    /\ coinbase_value = AmountZero
    /\ setup_blocks = << >>
    /\ scenario_blocks = << >>
    /\ spec_idx = 0
    /\ script = << >>
    /\ stdout = << >>
    /\ frame = NoFrame
    /\ ret = ""
    /\ block = << >>
    /\ clock = ClockStart
    /\ call = << >>

\* s.parse::<BlocksSpec>()
CallFromStr ==
    /\ pc = "from_str"
    /\ \E s \in JsonTexts : call' = [s |-> s, result |-> from_str(s)]
    /\ pc' = "parsed"
    /\ UNCHANGED << overflow_checks, cli, template, height, prev_blockhash, target,
                    coinbase_value, setup_blocks, scenario_blocks, spec_idx, script,
                    stdout, frame, ret, block, clock >>

ParseNext == CallFromStr

ParseSpec == ParseInit /\ [][ParseNext]_vars

(***************************************************************************)
(* The commitment codec on its own: m1_txout and m2_txout called with any  *)
(* slot and any description.                                               *)
(***************************************************************************)
MaxDescLen == 3

SlotIds == {0, 1, DEMO_SIDECHAIN_SLOT}

DescriptionBytes == {0, 100, 255}

Descriptions ==
    SeqsUpTo(DescriptionBytes, MaxDescLen) \cup {DEMO_SIDECHAIN_DESCRIPTION}

CodecInit ==
    /\ pc = "codec"
    /\ overflow_checks \in BOOLEAN
    /\ cli = << >>
    /\ template = << >>
    /\ height = 0
    /\ prev_blockhash = << >>
    /\ target = 0
    /\ coinbase_value = AmountZero
    /\ setup_blocks = << >>
    /\ scenario_blocks = << >>
    /\ spec_idx = 0
    /\ script = << >>
    /\ stdout = << >>
    /\ frame = NoFrame
    /\ ret = ""
    /\ block = << >>
    /\ clock = ClockStart
    /\ call = << >>

\* m1_txout(sidechain_number, description.to_vec())
CallM1TxOut ==
    /\ pc = "codec"
    /\ \E n \in SlotIds, d \in Descriptions :
          call' = [fn |-> "m1_txout", sidechain_number |-> n, description |-> d,
                   out |-> m1_txout(n, d)]
    /\ pc' = "returned"
    /\ UNCHANGED << overflow_checks, cli, template, height, prev_blockhash, target,
                    coinbase_value, setup_blocks, scenario_blocks, spec_idx, script,
                    stdout, frame, ret, block, clock >>

\* m2_txout(sidechain_number, description)
CallM2TxOut ==
    /\ pc = "codec"
    /\ \E n \in SlotIds, d \in Descriptions :
          call' = [fn |-> "m2_txout", sidechain_number |-> n, description |-> d,
                   out |-> m2_txout(n, d)]
    /\ pc' = "returned"
    /\ UNCHANGED << overflow_checks, cli, template, height, prev_blockhash, target,
                    coinbase_value, setup_blocks, scenario_blocks, spec_idx, script,
                    stdout, frame, ret, block, clock >>

CodecNext ==
    \/ CallM1TxOut
    \/ CallM2TxOut

CodecSpec == CodecInit /\ [][CodecNext]_vars

(***************************************************************************)
(* gen_block on its own: called with any previous hash, target, height,    *)
(* coinbase outputs and transactions, its search run to the end.           *)
(***************************************************************************)
MaxTxs == 2

\* a transaction that is no coinbase: it spends output k of an earlier one
SpendingTx(k) ==
    [version   |-> TxVersionTwo,
     lock_time |-> 0,
     input     |-> << [previous_output |-> [txid |-> Sha256d(<< k >>), vout |-> LE4(k)],
                       script_sig      |-> << >>,
                       sequence        |-> U32Max,
                       witness         |-> << >>] >>,
     output    |-> << ValueTxOut(from_int_btc(k)) >>]

OtherTxs == {SpendingTx(1), SpendingTx(2)}

\* the targets of a call: the template ones and 0x201fffff
CallTargets == TemplateTargets \cup {538968063}

CallHeights == {0, 17, 149, LOCK_TIME_THRESHOLD - COINBASE_MATURITY}

CallTxOuts ==
    { << >>,
      << ValueTxOut(from_int_btc(50)) >>,
      << ValueTxOut(from_int_btc(50)),
         m1_txout(DEMO_SIDECHAIN_SLOT, DEMO_SIDECHAIN_DESCRIPTION) >>,
      << m2_txout(DEMO_SIDECHAIN_SLOT, DEMO_SIDECHAIN_DESCRIPTION),
         m2_txout(DEMO_SIDECHAIN_SLOT, DEMO_SIDECHAIN_DESCRIPTION),
         ValueTxOut(from_int_btc(50)) >> }

GenBlockInit ==
    /\ pc = "gen_block"
    /\ overflow_checks \in BOOLEAN
    /\ cli = << >>
    /\ template = << >>
    /\ height = 0
    /\ prev_blockhash = << >>
    /\ target = 0
    /\ coinbase_value = AmountZero
    /\ setup_blocks = << >>
    /\ scenario_blocks = << >>
    /\ spec_idx = 0
    /\ script = << >>
    /\ stdout = << >>
    /\ frame = NoFrame
    /\ ret = ""
    /\ block = << >>
    /\ clock = ClockStart
    /\ call = << >>

\* gen_block(prev_blockhash, target, height, coinbase_txouts, txs) is entered
\* (main.rs 42-84)
GenBlockCall ==
    /\ pc = "gen_block"
    /\ \E prev \in TemplatePrevHashes, bits \in CallTargets, h \in CallHeights,
          outs \in CallTxOuts, txs \in SeqsUpTo(OtherTxs, MaxTxs) :
          /\ call' = [prev_blockhash |-> prev, target |-> bits, height |-> h,
                      coinbase_txouts |-> outs, txs |-> txs]
          /\ CallGenBlock(prev, bits, h, outs, txs, "returned")
    /\ UNCHANGED << overflow_checks, cli, template, height, prev_blockhash, target,
                    coinbase_value, setup_blocks, scenario_blocks, spec_idx, script,
                    stdout, block >>

GenBlockNext ==
    \/ GenBlockCall
    \/ NonceStep
    \/ GenBlockReturn

GenBlockSpec == GenBlockInit /\ [][GenBlockNext]_vars

\* the loop of gen_block does not yield: once entered it goes on running
FairGenBlockSpec ==
    GenBlockSpec /\ WF_vars(NonceStep) /\ WF_vars(GenBlockReturn)

(***************************************************************************)
(* What the properties speak of.                                           *)
(***************************************************************************)
\* every block generated so far, in construction order
AllBlocks == setup_blocks \o scenario_blocks

\* the blocks gen_block has returned: the generated ones and the one just
\* returned to its caller
ReturnedBlocks ==
    {AllBlocks[i] : i \in 1..Len(AllBlocks)}
        \cup (IF pc \in {"setup1_built", "setup2_built", "scenario_built"}
              THEN {block} ELSE {})

Coinbase(b) == b.txdata[1]

\* the height a block's coinbase script_sig encodes
BlockHeight(b) == EncodedHeight(Coinbase(b).input[1].script_sig)

\* gen_setup_blocks has returned its blocks to gen_script
SetupReturned ==
    \/ pc \in {"setup_done", "loop", "scenario_built", "done"}
    \/ pc = "mining" /\ ret = "scenario_built"

\* the output script of the fixed spend-unrestricted address: OP_0, a push
\* of 32 bytes, the SHA-256 of the script OP_TRUE
ValueScript == << 0, 32 >> \o Sha256(<< 81 >>)

IsValueOutput(out) == out.script_pubkey = ValueScript

\* OP_RETURN, the tag D5 E0 C4 AF and the demo slot FF
DemoCommitmentPrefix == << 106, 213, 224, 196, 175, 255 >>

\* a Proposal-Declaration (M1) of the demo slot and description
IsDemoM1(out) ==
    out.script_pubkey = DemoCommitmentPrefix \o DEMO_SIDECHAIN_DESCRIPTION

\* a Proposal-Acknowledgment (M2) of the demo slot and description
IsDemoM2(out) ==
    out.script_pubkey = DemoCommitmentPrefix \o Sha256d(DEMO_SIDECHAIN_DESCRIPTION)

\* a commitment output: a data-carrying script
IsCommitment(out) == out.script_pubkey[1] = 106

\* the positions of the outputs of a coinbase that satisfy P
Positions(outs, P(_)) == {i \in 1..Len(outs) : P(outs[i])}

IsNonZero(out) == out.value # AmountZero

(***************************************************************************)
(* C1.  Height chaining over the whole generated sequence (setup blocks    *)
(* then scenario blocks): the height each block's coinbase encodes is the  *)
(* height the block before it encodes, plus one.                           *)
(***************************************************************************)
C1_HeightChaining ==
    \A i \in 1..(Len(AllBlocks) - 1) :
        BlockHeight(AllBlocks[i + 1]) = BlockHeight(AllBlocks[i]) + 1

(***************************************************************************)
(* C2.  Previous-hash chaining: the first generated block's prev_blockhash *)
(* is the template's, and every later block's prev_blockhash is the hash   *)
(* of the 80 header bytes of the block before it, as finally mined.        *)
(***************************************************************************)
C2_PrevHashChaining ==
    /\ Len(AllBlocks) >= 1 => AllBlocks[1].header.prev_blockhash = template.prev_blockhash
    /\ \A i \in 1..(Len(AllBlocks) - 1) :
          AllBlocks[i + 1].header.prev_blockhash
              = Sha256d(SerializeHeader(AllBlocks[i].header))

\* a finished run of three blocks, one of them mined with a nonce other
\* than zero
C2_Witness ==
    /\ pc = "done"
    /\ Len(AllBlocks) >= 3
    /\ \E i \in 1..(Len(AllBlocks) - 1) : AllBlocks[i].header.nonce # 0

(***************************************************************************)
(* C3.  Proof of work: for every block gen_block returns, the double hash  *)
(* of the 80 header bytes, read as a little-endian integer, is strictly    *)
(* below the target expanded from the header's own compact target.         *)
(***************************************************************************)
C3_ProofOfWork ==
    \A b \in ReturnedBlocks :
        U256Less(Reverse(Sha256d(SerializeHeader(b.header))), from_compact(b.header.bits))

\* gen_block has just returned a block whose search went past nonce zero
C3_Witness ==
    /\ pc \in {"setup1_built", "setup2_built", "scenario_built"}
    /\ block.header.nonce # 0

(***************************************************************************)
(* C4.  Merkle root: for every block gen_block returns, the header's       *)
(* merkle root is the root recomputed from the block's transaction list,   *)
(* and it is not the zero placeholder.                                     *)
(***************************************************************************)
C4_MerkleRoot ==
    \A b \in ReturnedBlocks :
        /\ b.header.merkle_root = compute_merkle_root(b.txdata)
        /\ b.header.merkle_root # Zeros(32)

\* a returned block with three coinbase outputs, mined past nonce zero
C4_Witness ==
    /\ pc = "scenario_built"
    /\ Len(Coinbase(block).output) = 3
    /\ block.header.nonce # 0

(***************************************************************************)
(* C6.  Number of setup blocks: once gen_setup_blocks has returned, there  *)
(* are two setup blocks when some condition sets duplicate_m2 and one      *)
(* otherwise; the second setup block carries the demo M1 output, and no    *)
(* other generated block does.                                             *)
(***************************************************************************)
C6_SetupBlockCount ==
    SetupReturned =>
        /\ Len(setup_blocks) =
              IF \E i \in 1..Len(cli.blocks_spec) : cli.blocks_spec[i].duplicate_m2
              THEN 2 ELSE 1
        /\ \A i \in 1..Len(AllBlocks) :
              (Positions(Coinbase(AllBlocks[i]).output, IsDemoM1) # {})
                  <=> (i = 2 /\ Len(setup_blocks) = 2)

\* a finished run whose only duplicate_m2 condition is the second one
C6_Witness ==
    /\ pc = "done"
    /\ Len(cli.blocks_spec) = 2
    /\ ~cli.blocks_spec[1].duplicate_m2
    /\ cli.blocks_spec[2].duplicate_m2
    /\ Len(setup_blocks) = 2

(***************************************************************************)
(* C7.  Duplicate acknowledgment: the coinbase of the scenario block of a  *)
(* condition that sets duplicate_m2 holds exactly two M2 outputs, byte for *)
(* byte the same, and exactly one value output; the coinbase of a          *)
(* condition that does not holds no M2 output and exactly one value        *)
(* output.                                                                 *)
(***************************************************************************)
C7_DuplicateM2 ==
    \A i \in 1..Len(scenario_blocks) :
        LET outs == Coinbase(scenario_blocks[i]).output
            acks == Positions(outs, IsDemoM2)
        IN  /\ Cardinality(Positions(outs, IsValueOutput)) = 1
            /\ IF cli.blocks_spec[i].duplicate_m2
               THEN /\ Cardinality(acks) = 2
                    /\ \A j, k \in acks : outs[j] = outs[k]
                    /\ Len(outs) = 3
               ELSE /\ Positions(outs, IsCommitment) = {}
                    /\ Len(outs) = 1

\* a finished run with a duplicate_m2 block and a block without
C7_Witness ==
    /\ pc = "done"
    /\ Len(scenario_blocks) = 2
    /\ cli.blocks_spec[1].duplicate_m2
    /\ ~cli.blocks_spec[2].duplicate_m2

(***************************************************************************)
(* C8.  Output order: in every generated block's coinbase output list the  *)
(* commitment outputs come first and the single value output is last.      *)
(***************************************************************************)
C8_ValueOutputLast ==
    \A i \in 1..Len(AllBlocks) :
        LET outs == Coinbase(AllBlocks[i]).output
        IN  /\ IsValueOutput(outs[Len(outs)])
            /\ \A j \in 1..(Len(outs) - 1) : IsCommitment(outs[j])

HalfOf(a) == [hi |-> a.hi \div 2, lo |-> ((a.hi % 2) * Limb + a.lo) \div 2]

C5_SubsidyHalving ==
    call # << >> =>
        /\ ~call.subsidy.panic
        /\ ~call.next.panic
        /\ call.next.value = HalfOf(call.subsidy.value)
        /\ call.height < halving_interval(call.network)
              => call.subsidy.value = from_int_btc(50)

\* a call at epoch 63 on regtest, whose next epoch is 64
C5_Witness ==
    /\ call # << >>
    /\ call.network = "Regtest"
    /\ call.height = 63 * REGTEST_HALVING_INTERVAL

(***************************************************************************)
(* C10.  Script rendering, Comment followed by Command: in the text        *)
(* finalize produces, every Comment item immediately followed by a Command *)
(* item is separated from that Command by exactly one blank line.          *)
(***************************************************************************)
\* the text of item i as finalize writes it
ItemText(i) ==
    IF script[i].kind = "Comment" THEN CommentFmt(script[i]) ELSE CommandFmt(script[i])

\* how much of the finalized text precedes the text of item i
TextBefore(i) == Len(stdout) - Len(finalize(SubSeq(script, i, Len(script))))

\* what the finalized text holds between the text of item i and of item i+1
Between(i) == SubSeq(stdout, TextBefore(i) + Len(ItemText(i)) + 1, TextBefore(i + 1))

\* the Comments of the finalized document that a Command follows
CommentThenCommand ==
    { i \in 1..(Len(script) - 1) :
        script[i].kind = "Comment" /\ script[i + 1].kind = "Command" }

\* the texts of items i and i+1 stand in the finalized text where Between
\* takes them to be
TextsInPlace(i) ==
    /\ SubSeq(stdout, TextBefore(i) + 1, TextBefore(i) + Len(ItemText(i))) = ItemText(i)
    /\ SubSeq(stdout, TextBefore(i + 1) + 1, TextBefore(i + 1) + Len(ItemText(i + 1)))
          = ItemText(i + 1)

C10_BlankLineBeforeCommand ==
    pc = "finalized" =>
        \A i \in CommentThenCommand : TextsInPlace(i) /\ Between(i) = << NL, NL >>

(***************************************************************************)
(* C10, amended.  Every Comment item immediately followed by a Command     *)
(* item is separated from it by a single newline: the Command begins on    *)
(* the line after the Comment's last line, with no blank line between.     *)
(***************************************************************************)
C10_NewlineBeforeCommand ==
    pc = "finalized" =>
        \A i \in CommentThenCommand : TextsInPlace(i) /\ Between(i) = << NL >>

\* a finalized document of two Comments and then a Command
C10_Witness ==
    /\ pc = "finalized"
    /\ Len(script) = 3
    /\ script[1].kind = "Comment"
    /\ script[2].kind = "Comment"
    /\ script[2].text = Str("c1")
    /\ script[3].kind = "Command"
    /\ CommentThenCommand = {2}

(***************************************************************************)
(* C11.  Script rendering separators: every Comment line is prefixed with  *)
(* "# ", two consecutive Comments are separated by one blank line, a       *)
(* Command is separated from the item after it by one blank line, a        *)
(* Comment is followed directly by the Command after it, and the final     *)
(* item is followed by exactly one newline and no blank line; the text     *)
(* written to standard output is that rendering and ends the same way.     *)
(***************************************************************************)
\* the text of one item: "# " before every line of a Comment, the words of
\* a Command separated by spaces
RenderedItem(item) ==
    IF item.kind = "Comment"
    THEN Join(AsSeq([k \in 1..Len(Lines(item.text)) |->
                        << Lit("# ") >> \o Lines(item.text)[k]]), << NL >>)
    ELSE Join(<< item.command >> \o item.args, << SP >>)

\* what stands after item i of a document
SeparatorAfter(doc, i) ==
    IF i = Len(doc) THEN << NL >>
    ELSE IF doc[i].kind = "Comment" /\ doc[i + 1].kind = "Command" THEN << NL >>
    ELSE << NL, NL >>

\* the whole document as the claim renders it
RenderedDocument(doc) ==
    Concat(AsSeq([i \in 1..Len(doc) |-> RenderedItem(doc[i]) \o SeparatorAfter(doc, i)]))

C11_StdoutRendering ==
    pc = "done" => stdout = RenderedDocument(script)

(***************************************************************************)
(* C12.  Script order: the script of a finished run holds, in this order   *)
(* and with nothing dropped, duplicated or moved, the setup comment, one   *)
(* submitblock command per setup block in construction order, and for      *)
(* every scenario condition its comment directly followed by the           *)
(* submitblock command of the block built for it; the text printed holds   *)
(* the items in that order.  So there is one submitblock command per       *)
(* generated block, in the order of the blocks.                            *)
(***************************************************************************)
\* the submitblock command of a block
SubmitItem(b) == submitblock(<< >>, cli.rpc_addr, cli.rpc_auth, b)[1]

\* the items of a finished run, in the order the claim gives
ExpectedScript ==
    << CommentItem(Str("Mine some setup blocks")) >>
        \o AsSeq([i \in 1..Len(setup_blocks) |-> SubmitItem(setup_blocks[i])])
        \o Concat(AsSeq([i \in 1..Len(scenario_blocks) |->
                            << CommentItem(gen_comment(cli.blocks_spec[i])),
                               SubmitItem(scenario_blocks[i]) >>]))

\* the Command items of the script, in script order
ScriptCommands == SelectSeq(script, LAMBDA item : item.kind = "Command")

C12_ScriptOrder ==
    pc = "done" =>
        /\ Len(scenario_blocks) = Len(cli.blocks_spec)
        /\ script = ExpectedScript
        /\ ScriptCommands = AsSeq([k \in 1..Len(AllBlocks) |-> SubmitItem(AllBlocks[k])])
        /\ stdout = RenderedDocument(ExpectedScript) \o << NL >>

\* a finished run of two setup blocks and two scenario blocks whose
\* conditions differ
C12_Witness ==
    /\ pc = "done"
    /\ Len(setup_blocks) = 2
    /\ Len(scenario_blocks) = 2
    /\ cli.blocks_spec[1] # cli.blocks_spec[2]
    /\ Len(script) = 7

(***************************************************************************)
(* C13.  Everything-or-nothing output: standard output is written only     *)
(* once every setup block and every scenario block has been built; a run   *)
(* that ends in an error (the template request fails, gen_block or a       *)
(* height reading returns an error, the program panics) has printed        *)
(* nothing, not even a part of the script.                                 *)
(***************************************************************************)
C13_EverythingOrNothing ==
    /\ stdout # << >> =>
          /\ pc = "done"
          /\ Len(setup_blocks) = IF requires_m1(cli.blocks_spec) THEN 2 ELSE 1
          /\ Len(scenario_blocks) = Len(cli.blocks_spec)
    /\ pc \in {"error", "panic"} => stdout = << >>
    /\ pc = "done" => stdout # << >>

\* a run that ended in an error when the script already held the setup
\* blocks and one scenario block
C13_Witness ==
    /\ pc = "error"
    /\ Len(scenario_blocks) = 1
    /\ Len(script) >= 4

(***************************************************************************)
(* C14.  Scenario parsing rejects unrecognized fields: parsing a scenario  *)
(* in which some block-condition object has a field other than             *)
(* duplicate_m2 fails with a parse error and yields no BlocksSpec.         *)
(***************************************************************************)
\* some object of the parsed text has a member the BlockSpec does not name
HasUnknownField ==
    \E i \in 1..Len(call.s.items) :
        \E j \in 1..Len(call.s.items[i].fields) :
            call.s.items[i].fields[j].key # "duplicate_m2"

C14_UnknownFieldRejected ==
    (pc = "parsed" /\ HasUnknownField) => ~call.result.ok

\* the text [{"duplicate_m1": true}] has been parsed
C14_Witness ==
    /\ pc = "parsed"
    /\ call.s = [type  |-> "array",
                 items |-> << [type   |-> "object",
                               fields |-> << [key   |-> "duplicate_m1",
                                              value |-> [type |-> "bool",
                                                         bool |-> TRUE]] >>] >>]

(***************************************************************************)
(* C15.  Commitment codec: the output script of m1_txout and of m2_txout   *)
(* is the OP_RETURN byte, the tag D5 E0 C4 AF, the slot id and a payload;  *)
(* the M1 payload is the description itself, the M2 payload is the 32-byte *)
(* double hash of the description and never the description; both outputs  *)
(* have value zero.                                                        *)
(***************************************************************************)
\* the bytes of a commitment script after OP_RETURN, the tag and the slot
Payload(script_pubkey) == SubSeq(script_pubkey, 7, Len(script_pubkey))

C15_CommitmentCodec ==
    pc = "returned" =>
        LET spk == call.out.script_pubkey
        IN  /\ call.out.value = [hi |-> 0, lo |-> 0]
            /\ Len(spk) >= 6
            /\ spk[1] = 106
            /\ SubSeq(spk, 2, 5) = << 213, 224, 196, 175 >>
            /\ spk[6] = call.sidechain_number
            /\ call.fn = "m1_txout" => Payload(spk) = call.description
            /\ call.fn = "m2_txout" =>
                  /\ Payload(spk) = Sha256d(call.description)
                  /\ Len(Payload(spk)) = 32
                  /\ Payload(spk) # call.description

\* m2_txout has returned the acknowledgment of slot 1 and a three-byte
\* description
C15_Witness ==
    /\ pc = "returned"
    /\ call.fn = "m2_txout"
    /\ call.sidechain_number = 1
    /\ call.description = << 100, 0, 255 >>

(***************************************************************************)
(* C16.  Nonce search from zero: gen_block tests the header with counter   *)
(* 0, then 1, 2, 3, ... with no value skipped, each written big-endian     *)
(* into header bytes 76..79; the last four bytes of the returned header,   *)
(* read big-endian, are the smallest counter whose header hash is below    *)
(* the target.                                                             *)
(***************************************************************************)
\* the four bytes of a counter, most significant first
BigEndian4(n) ==
    << n \div 16777216, (n \div 65536) % 256, (n \div 256) % 256, n % 256 >>

\* the 80 header bytes with the counter n in the last four
WithCounter(header_bytes, n) == SubSeq(header_bytes, 1, 76) \o BigEndian4(n)

\* the double hash of the bytes, read little-endian, is below the target of
\* the call
HashBelowTarget(header_bytes) ==
    U256Less(Reverse(Sha256d(header_bytes)), from_compact(call.target))

C16_NonceSearch ==
    /\ pc = "mining" =>
          /\ frame.header_bytes
                = WithCounter(SerializeHeader(frame.block.header), frame.nonce)
          /\ \A m \in 0..(frame.nonce - 1) :
                ~HashBelowTarget(WithCounter(frame.header_bytes, m))
    /\ pc = "returned" =>
          \E n \in 0..MaxNonce :
             /\ SerializeHeader(block.header) = WithCounter(SerializeHeader(block.header), n)
             /\ HashBelowTarget(SerializeHeader(block.header))
             /\ \A m \in 0..(n - 1) :
                   ~HashBelowTarget(WithCounter(SerializeHeader(block.header), m))

\* gen_block has returned a block found at a counter of 2 or more
C16_Witness ==
    /\ pc = "returned"
    /\ SerializeHeader(block.header)[80] >= 2

(***************************************************************************)
(* C17.  Termination of the proof-of-work search: whenever some counter    *)
(* value gives a header hash below the target, the loop of gen_block ends  *)
(* and gen_block returns a block whose hash is below the target; the       *)
(* search never makes gen_block fail.  (Checked for the counter values up  *)
(* to MaxNonce, which the counter reaches without wrapping.)               *)
(***************************************************************************)
\* the search is running and a counter value within the bound succeeds
SearchCanSucceed ==
    /\ pc = "mining"
    /\ \E n \in 0..MaxNonce : HashBelowTarget(WithCounter(frame.header_bytes, n))

\* gen_block has returned a block with a valid nonce
SearchReturned ==
    /\ pc = "returned"
    /\ HashBelowTarget(SerializeHeader(block.header))

C17_SearchTerminates ==
    /\ SearchCanSucceed ~> SearchReturned
    /\ [](pc = "mining" => frame.nonce <= MaxNonce)
    /\ [](pc # "panic")

\* the search has gone past counter zero and a later counter value succeeds
C17_Witness ==
    /\ SearchCanSucceed
    /\ frame.nonce = 1
    /\ ~HashBelowTarget(frame.header_bytes)

(***************************************************************************)
(* C18.  Frame of the nonce search: a step of the search changes only the  *)
(* last four of the 80 header bytes and leaves the block alone; in the     *)
(* block gen_block returns, the header's version, previous block hash,     *)
(* merkle root, time and compact target are those set before the search    *)
(* began, the previous block hash and the compact target being the         *)
(* arguments of the call, and the transaction list is the one set before   *)
(* the search began.                                                       *)
(***************************************************************************)
\* the header fields the search has no business with
FrameFields(h) ==
    [version        |-> h.version,
     prev_blockhash |-> h.prev_blockhash,
     merkle_root    |-> h.merkle_root,
     time           |-> h.time,
     bits           |-> h.bits]

C18_SearchFrame ==
    [][/\ (pc = "mining" /\ pc' = "mining") =>
             /\ SubSeq(frame'.header_bytes, 1, 76) = SubSeq(frame.header_bytes, 1, 76)
             /\ frame'.block = frame.block
             /\ frame'.target = frame.target
       /\ (pc = "mining" /\ pc' = "returned") =>
             /\ FrameFields(block'.header) = FrameFields(frame.block.header)
             /\ block'.header.prev_blockhash = call.prev_blockhash
             /\ block'.header.bits = call.target
             /\ block'.txdata = frame.block.txdata]_vars

\* gen_block has returned a block with transactions besides the coinbase,
\* found after the nonce bytes were rewritten twice or more
C18_Witness ==
    /\ pc = "returned"
    /\ SerializeHeader(block.header)[80] >= 2
    /\ Len(block.txdata) >= 2
    /\ block.header.time = ClockStart + 1

(***************************************************************************)
(* C19.  Transaction list shape: for every coinbase output list and every  *)
(* list txs given to gen_block, the transaction list of the returned block *)
(* has length |txs| + 1; its first element is the coinbase transaction,    *)
(* with a single input that has the null outpoint, a script_sig encoding   *)
(* the given height and the maximum sequence number, and with the given    *)
(* coinbase outputs in the given order; its elements 2..n are txs in       *)
(* their original order.                                                   *)
(***************************************************************************)
\* tx is the coinbase transaction of a call with this height and these outputs
IsCoinbaseOf(tx, h, outs) ==
    /\ Len(tx.input) = 1
    /\ tx.input[1].previous_output = [txid |-> Zeros(32), vout |-> << 255, 255, 255, 255 >>]
    /\ EncodedHeight(tx.input[1].script_sig) = h
    /\ tx.input[1].sequence = << 255, 255, 255, 255 >>
    /\ tx.output = outs

C19_TxListShape ==
    pc = "returned" =>
        /\ Len(block.txdata) = Len(call.txs) + 1
        /\ IsCoinbaseOf(block.txdata[1], call.height, call.coinbase_txouts)
        /\ \A i \in 1..Len(call.txs) : block.txdata[i + 1] = call.txs[i]

\* gen_block has returned for two different transactions and a coinbase
\* output list of two or more outputs
C19_Witness ==
    /\ pc = "returned"
    /\ Len(call.txs) = 2
    /\ call.txs[1] # call.txs[2]
    /\ Len(call.coinbase_txouts) >= 2
    /\ call.height > 16

====
